---- MODULE Spec2Model ----
(***************************************************************************)
(* A model of sdutil's filesystem inventory engine (src/sdutil/fstree.py)  *)
(* and of the background build of the library tree (src/sdutil/sdutil.py). *)
(*                                                                         *)
(* Python strings are sequences of one-character strings, so that          *)
(* os.path.join, os.path.dirname and the size pattern work on characters.  *)
(***************************************************************************)
EXTENDS Integers, Sequences, FiniteSets, TLC

VARIABLES
    rootOk,         \* the root path exists and is a directory
    fstat,          \* the filesystem: what each candidate file is right now
    listing,        \* the order in which os.scandir lists the directories of the root
    include,        \* the include_paths argument of FilesystemTree
    pc,             \* where the constructor is: "init", "walking", "built", "failed"
    err,            \* the exception that ended the constructor, or "none"
    nodes,          \* the tree: node identifier (a path) -> treelib node and its data
    include_paths,  \* self.include_paths, the resolved include set
    walked,         \* how many os.walk iterations populate_tree has done
    args,           \* the arguments of the last show call
    out,            \* what the last show call printed (or that it raised)
    dirty,          \* a file changed since the last show call began
    changes,        \* how many times the world outside has changed a file
    wpc,            \* the worker thread: "running" or "dead"
    library_tree,   \* SDUtil._library_tree: "None" or "tree" (the object in nodes)
    fpc,            \* the foreground thread inside the library_tree property
    got,            \* what the last read of library_tree returned
    first,          \* what the first read of library_tree returned
    reads,          \* how many reads of library_tree have returned
    specIn,         \* the argument of size_spec
    specOut         \* what size_spec did with it

treeVars == <<rootOk, fstat, listing, include, pc, err, nodes, include_paths, walked>>
showVars == <<args, out, dirty, changes>>
threadVars == <<wpc, library_tree, fpc, got, first, reads>>
sizeVars == <<specIn, specOut>>
vars == <<rootOk, fstat, listing, include, pc, err, nodes, include_paths, walked,
          args, out, dirty, changes, wpc, library_tree, fpc, got, first, reads,
          specIn, specOut>>

----------------------------------------------------------------------------
(* Bounds of the model. *)

MaxSpecLen == 4      \* longest size specification string tried
MaxIntSpec == 3      \* largest integer handed to size_spec
MaxFileSize == 1     \* largest file size on the modelled filesystem
MaxMinSize == 2      \* largest min_size handed to show
MaxReads == 2        \* most reads of SDUtil.library_tree
MaxDepth == 2        \* largest depth handed to show
MaxChanges == 2      \* most changes the world outside makes to the files

----------------------------------------------------------------------------
(* Strings. *)

LF == "\n"
KELVIN == "KELVIN"   \* U+212A KELVIN SIGN, one character

Last(s) == s[Len(s)]
Front(s) == SubSeq(s, 1, Len(s) - 1)

----------------------------------------------------------------------------
(* size_spec, fstree.py lines 21-37. *)

\* \d of the pattern, over the characters the model uses
IsDigit(ch) == ch \in {"0", "1", "2", "5"}

DigitValue(ch) ==
    CASE ch = "0" -> 0 [] ch = "1" -> 1 [] ch = "2" -> 2 [] ch = "5" -> 5

\* [BKMG] under re.IGNORECASE: the eight ASCII letters, and the Kelvin sign,
\* whose lower case is "k"
IsUnitChar(ch) == ch \in {"B", "K", "M", "G", "b", "k", "m", "g", KELVIN}

\* str.upper() on one character
Upper(ch) ==
    CASE ch = "b" -> "B" [] ch = "k" -> "K" [] ch = "m" -> "M" [] ch = "g" -> "G"
      [] OTHER -> ch

\* SIZE_UNITS without its None key
SIZE_UNITS == [u \in {"B", "K", "M", "G"} |->
                 CASE u = "B" -> 2^0 [] u = "K" -> 2^10 [] u = "M" -> 2^20 [] u = "G" -> 2^30]

AllDigits(s) == \A i \in 1..Len(s) : IsDigit(s[i])

RECURSIVE ParseInt(_)
\* int() of a string of decimal digits
ParseInt(s) == IF s = <<>> THEN 0 ELSE 10 * ParseInt(Front(s)) + DigitValue(Last(s))

\* SIZE_PATTERN.match(spec): ^(?P<size>\d+)(?P<unit>[BKMG])?$ where, without
\* re.MULTILINE, $ matches at the end of the string and also just before a
\* newline that ends the string.  The match as [matched, size, unit], unit
\* being <<>> when the group took no part.
MatchBody(s) ==
    IF s # <<>> /\ AllDigits(s)
    THEN [matched |-> TRUE, size |-> s, unit |-> <<>>]
    ELSE IF Len(s) >= 2 /\ AllDigits(Front(s)) /\ IsUnitChar(Last(s))
    THEN [matched |-> TRUE, size |-> Front(s), unit |-> <<Last(s)>>]
    ELSE [matched |-> FALSE, size |-> <<>>, unit |-> <<>>]

SizePatternMatch(s) ==
    IF MatchBody(s).matched THEN MatchBody(s)
    ELSE IF s # <<>> /\ Last(s) = LF THEN MatchBody(Front(s))
    ELSE MatchBody(s)

Returned(n) == [kind |-> "return", val |-> n]
Raised(e) == [kind |-> e, val |-> 0]
Pending == [kind |-> "pending", val |-> 0]

IntSpec(n) == [kind |-> "int", int |-> n, str |-> <<>>]
StrSpec(s) == [kind |-> "str", int |-> 0, str |-> s]

size_spec(spec) ==
    IF spec.kind = "int" THEN Returned(spec.int)
    ELSE LET match == SizePatternMatch(spec.str) IN
         IF match.matched
         THEN IF match.unit # <<>>
              THEN IF Upper(match.unit[1]) \in DOMAIN SIZE_UNITS
                   THEN Returned(ParseInt(match.size) * SIZE_UNITS[Upper(match.unit[1])])
                   ELSE Raised("KeyError")
              ELSE Returned(ParseInt(match.size) * 1)
         ELSE Raised("ValueError")

----------------------------------------------------------------------------
(* The size specifications tried. *)

SpecChars == {"0", "1", "2", "5", "G", "M", "k", "X", "-", ".", LF, KELVIN}

SpecStrings == UNION {[1..n -> SpecChars] : n \in 0..MaxSpecLen}

\* the model's integers are 32 bits wide: keep the strings whose value fits
Fits(s) ==
    LET m == SizePatternMatch(s) IN
    m.matched /\ m.unit # <<>> /\ Upper(m.unit[1]) \in DOMAIN SIZE_UNITS
        => ParseInt(m.size) <= 2147483647 \div SIZE_UNITS[Upper(m.unit[1])]

SpecInputs == {IntSpec(n) : n \in (0 - 1)..MaxIntSpec}
                \cup {StrSpec(s) : s \in {t \in SpecStrings : Fits(t)}}

----------------------------------------------------------------------------
(* Paths: posixpath.join and posixpath.dirname on character sequences. *)

\* os.path.join(a, b)
join(a, b) ==
    IF b # <<>> /\ b[1] = "/" THEN b
    ELSE IF a = <<>> \/ Last(a) = "/" THEN a \o b
    ELSE a \o <<"/">> \o b

\* p.rfind("/") + 1
RFindSep(p) ==
    LET at == {i \in 1..Len(p) : p[i] = "/"} IN
    IF at = {} THEN 0 ELSE CHOOSE i \in at : \A j \in at : j <= i

RECURSIVE RStripSep(_)
\* head.rstrip("/")
RStripSep(s) == IF s # <<>> /\ Last(s) = "/" THEN RStripSep(Front(s)) ELSE s

\* os.path.dirname(p)
dirname(p) ==
    LET head == SubSeq(p, 1, RFindSep(p)) IN
    IF head # <<>> /\ (\E i \in 1..Len(head) : head[i] # "/")
    THEN RStripSep(head) ELSE head

\* str.startswith
StartsWith(s, prefix) ==
    Len(prefix) <= Len(s) /\ SubSeq(s, 1, Len(prefix)) = prefix

----------------------------------------------------------------------------
(* The filesystem under the root: a fixed skeleton of directories          *)
(*   /R/a, /R/a/b, /R/ab, /R/d                                             *)
(* and three candidate files /R/a/b/c, /R/d/g, /R/f, each of which is      *)
(* absent, a dangling symlink, a symlink loop, beyond reach because its     *)
(* directory may be read but not searched, or a regular file of some size. *)

ROOT == <<"/", "R">>
DirA == join(ROOT, <<"a">>)
DirAslashB == join(DirA, <<"b">>)
DirAB == join(ROOT, <<"a", "b">>)
DirD == join(ROOT, <<"d">>)
FileC == join(DirAslashB, <<"c">>)
FileG == join(DirD, <<"g">>)
FileF == join(ROOT, <<"f">>)

Dirs == {ROOT, DirA, DirAslashB, DirAB, DirD}
Files == {FileC, FileG, FileF}

\* the names of the directories right under the root, and the orders in
\* which os.scandir may list them: any, it is the filesystem's own
RootDirs == {<<"a">>, <<"a", "b">>, <<"d">>}
Orders ==
    {order \in [1..Cardinality(RootDirs) -> RootDirs] :
        \A i, j \in DOMAIN order : order[i] = order[j] => i = j}
ByName == << <<"a">>, <<"a", "b">>, <<"d">> >>
Backwards == << <<"d">>, <<"a", "b">>, <<"a">> >>

\* the directory names os.walk lists in a directory, in scandir order
DirNames(order, dir_path) ==
    CASE dir_path = ROOT -> order
      [] dir_path = DirA -> << <<"b">> >>
      [] OTHER -> << >>

\* the names a directory may hold that are not directories
FileCandidates(dir_path) ==
    CASE dir_path = ROOT -> << <<"f">> >>
      [] dir_path = DirAslashB -> << <<"c">> >>
      [] dir_path = DirD -> << <<"g">> >>
      [] OTHER -> << >>

Absent == [kind |-> "absent", size |-> 0]
Dangling == [kind |-> "dangling", size |-> 0]      \* a symlink to nothing
Looping == [kind |-> "looping", size |-> 0]        \* a symlink loop: stat fails, ELOOP
NoAccess == [kind |-> "noaccess", size |-> 0]      \* stat and lstat fail, EACCES
Regular(n) == [kind |-> "regular", size |-> n]
Stats == {Absent, Dangling, Looping, NoAccess} \cup {Regular(n) : n \in 0..MaxFileSize}

\* what a file can be: /R/a/b and /R/d hold nothing but their file and may
\* lose their search permission; /R, which holds the directories, keeps it
StatsOf(f) == IF f = FileF THEN Stats \ {NoAccess} ELSE Stats
Filesystems == {fs \in [Files -> Stats] : \A f \in Files : fs[f] \in StatsOf(f)}

\* the file names os.walk lists in a directory: every entry that is not a
\* directory, whether or not it can be stat'ed
FileNames(fs, dir_path) ==
    LET Listed(name) == fs[join(dir_path, name)].kind # "absent" IN
    SelectSeq(FileCandidates(dir_path), Listed)

\* os.path.lexists: lstat succeeds, which it does on a symlink whatever it
\* points to, and does not below a directory that cannot be searched
LExists(fs, path) ==
    \/ path \in Dirs
    \/ path \in Files /\ fs[path].kind \notin {"absent", "noaccess"}

RECURSIVE WalkFrom(_, _), WalkEach(_, _, _)
\* the directories os.walk(top) yields, top-down, in order; it descends into
\* every directory it lists, whatever the caller does with the names
WalkFrom(order, top) == <<top>> \o WalkEach(order, top, DirNames(order, top))
WalkEach(order, top, names) ==
    IF names = << >> THEN << >>
    ELSE WalkFrom(order, join(top, Head(names))) \o WalkEach(order, top, Tail(names))

WalkOrder(order) == WalkFrom(order, ROOT)

----------------------------------------------------------------------------
(* Include patterns and glob. *)

PatA == <<"a">>
PatAB == <<"a", "b">>
PatDG == <<"d", "/", "g">>
PatZZ == <<"z", "z">>
Patterns == {PatA, PatAB, PatDG, PatZZ}

\* include_paths=None, or a set of patterns
NoInclude == [given |-> FALSE, pats |-> {}]
Including(ps) == [given |-> TRUE, pats |-> ps]

SeqToSet(s) == {s[i] : i \in 1..Len(s)}

\* glob.glob(pattern, root_dir=root, recursive=True), as a set, for the
\* patterns of the model, which hold no wildcard: such a pattern matches
\* itself when the path exists
glob(fs, pattern) ==
    IF LExists(fs, join(ROOT, pattern)) THEN {pattern} ELSE {}

\* FilesystemTree.expand_include_paths
expand_include_paths(fs, inc) ==
    IF ~inc.given THEN {}
    ELSE UNION {{join(ROOT, match) : match \in glob(fs, path)} : path \in inc.pats}

RECURSIVE AncestorIncluded(_, _)
\* the while loop of should_include_path
AncestorIncluded(ips, path) ==
    IF path = ROOT THEN FALSE
    ELSE IF dirname(path) \in ips THEN TRUE
    ELSE AncestorIncluded(ips, dirname(path))

\* the same test done on raw string prefixes
should_include_path_prefix(ips, path) ==
    ips = {} \/ \E p \in ips : StartsWith(path, p)

\* FilesystemTree.should_include_path
should_include_path(ips, path) ==
    IF ips = {} \/ path \in ips THEN TRUE ELSE AncestorIncluded(ips, path)

----------------------------------------------------------------------------
(* The tree: treelib's nodes keyed by path, each with the FilesystemNode it *)
(* carries.  children is treelib's list of successors, in creation order;   *)
(* subdirectories and files are the DirectoryNode's own lists.              *)

NoNodes == [id \in {} |-> 0]
NoParent == << >>

Node(parent, depth, isdir) ==
    [parent |-> parent, children |-> << >>, depth |-> depth, isdir |-> isdir,
     subdirectories |-> << >>, files |-> << >>]

\* lines 134-136 and 140-142 with the data lists left alone
AttachNoData(ns, parent, path, isdir) ==
    (path :> Node(parent, ns[parent].depth + 1, isdir))
        @@ [ns EXCEPT ![parent].children = Append(@, path)]

\* lines 134-136 (a directory) and 140-142 (a file): the new node goes on
\* the parent DirectoryNode's list and into the tree under the parent
Attach(ns, parent, path, isdir) ==
    (path :> Node(parent, ns[parent].depth + 1, isdir))
        @@ [ns EXCEPT ![parent].children = Append(@, path),
                      ![parent].subdirectories = IF isdir THEN Append(@, path) ELSE @,
                      ![parent].files = IF isdir THEN @ ELSE Append(@, path)]

\* one pass of an inner for loop of populate_tree; parent is
\* self.get_node(dir_path), None when the tree has no such node, and then
\* parent.data raises AttributeError
Visit(T, ips, dir_path, name, isdir) ==
    LET path == join(dir_path, name) IN
    IF T.err # "none" THEN T
    ELSE IF ~should_include_path(ips, path) THEN T
    ELSE IF dir_path \notin DOMAIN T.nodes THEN [T EXCEPT !.err = "AttributeError"]
    ELSE [T EXCEPT !.nodes = Attach(T.nodes, dir_path, path, isdir)]

RECURSIVE VisitAll(_, _, _, _, _)
VisitAll(T, ips, dir_path, names, isdir) ==
    IF names = << >> THEN T
    ELSE VisitAll(Visit(T, ips, dir_path, Head(names), isdir),
                  ips, dir_path, Tail(names), isdir)

\* one iteration of the os.walk loop, lines 130-142
PopulateDir(T, ips, fs, order, dir_path) ==
    VisitAll(VisitAll(T, ips, dir_path, DirNames(order, dir_path), TRUE),
             ips, dir_path, FileNames(fs, dir_path), FALSE)

RECURSIVE PopulateFrom(_, _, _, _, _)
\* the os.walk loop from its (k+1)-th iteration on
PopulateFrom(T, ips, fs, order, k) ==
    IF k >= Len(WalkOrder(order)) \/ T.err # "none" THEN T
    ELSE PopulateFrom(PopulateDir(T, ips, fs, order, WalkOrder(order)[k + 1]),
                      ips, fs, order, k + 1)

\* line 127: the root node
RootOnly == [nodes |-> (ROOT :> Node(NoParent, 0, TRUE)), err |-> "none"]

\* FilesystemTree.populate_tree
populate_tree(ips, fs, order) == PopulateFrom(RootOnly, ips, fs, order, 0)

\* lines 100-104: the two checks of FilesystemTree.__init__
Validate(ok, inc) ==
    IF ~ok THEN "ValueError"
    ELSE IF inc.given /\ inc.pats = {} THEN "ValueError"
    ELSE "none"

\* FilesystemTree.__init__: the constructed tree, or the exception and what
\* had been created when it was raised
Construct(ok, fs, inc, order) ==
    IF Validate(ok, inc) # "none"
    THEN [pc |-> "failed", err |-> Validate(ok, inc), nodes |-> NoNodes, include_paths |-> {}]
    ELSE LET ips == expand_include_paths(fs, inc)
             T == populate_tree(ips, fs, order)
         IN  [pc |-> IF T.err = "none" THEN "built" ELSE "failed",
              err |-> T.err, nodes |-> T.nodes, include_paths |-> ips]

----------------------------------------------------------------------------
(* Sizes.  A size is read from the filesystem whenever it is asked for,   *)
(* one os.path.getsize call per file each time, and the filesystem may     *)
(* change between two calls.                                                *)

Val(n) == [raised |-> FALSE, val |-> n]
OSError == [raised |-> TRUE, val |-> 0]

Plus(x, y) == IF x.raised \/ y.raised THEN OSError ELSE Val(x.val + y.val)

\* FileNode.size: os.path.getsize, with FileNotFoundError turned into 0;
\* any other OSError propagates
FileNodeSize(fs, path) ==
    CASE fs[path].kind = "regular" -> Val(fs[path].size)
      [] fs[path].kind \in {"absent", "dangling"} -> Val(0)
      [] fs[path].kind \in {"looping", "noaccess"} -> OSError

\* what the world outside does to a file: it removes one that is there, and
\* writes one that is not
Flip(stat) == IF stat.kind = "absent" THEN Regular(MaxFileSize) ELSE Absent

\* when it does so while the program reads: just before the program's at-th
\* read of the file
Slot(f, at) == [file |-> f, at |-> at]

\* a run of the program's reads, as far as it has got: the filesystem, what
\* the world outside will do to it, the reads of each file so far, the changes
\* the world has made so far, whether a read has raised, and what the code
\* computed from the reads: the sum it is adding up, the verdict of the filter,
\* the children chosen, their sort keys, the lines printed
World(fs, sched) ==
    [fs |-> fs, sched |-> sched, cnt |-> [f \in Files |-> 0], used |-> 0,
     raised |-> FALSE, sum |-> 0, ok |-> TRUE, chosen |-> << >>,
     keyed |-> << >>, lines |-> << >>]

\* the filesystem as the n-th read of a file finds it
Changed(w, path, n) ==
    IF Slot(path, n) \in w.sched THEN [w.fs EXCEPT ![path] = Flip(@)] ELSE w.fs

\* one call of FileNode.size, added to the sum
getsize(w, path) ==
    LET n == w.cnt[path] + 1
        fs == Changed(w, path, n)
    IN  [w EXCEPT !.fs = fs, !.cnt[path] = n,
                  !.used = IF fs # w.fs THEN @ + 1 ELSE @,
                  !.raised = FileNodeSize(fs, path).raised,
                  !.sum = @ + FileNodeSize(fs, path).val]

RECURSIVE AddSize(_, _, _), AddSizes(_, _, _)
\* sum(x.size for x in ids): the reads happen in the order of the list, and
\* an exception ends them
AddSizes(w, ns, ids) ==
    IF ids = << >> \/ w.raised THEN w
    ELSE AddSizes(AddSize(w, ns, Head(ids)), ns, Tail(ids))

\* FileNode.size, or DirectoryNode.size which sums its files and then its
\* subdirectories
AddSize(w, ns, id) ==
    IF w.raised THEN w
    ELSE IF ns[id].isdir
    THEN AddSizes(w, ns, ns[id].files \o ns[id].subdirectories)
    ELSE getsize(w, id)

\* one evaluation of FilesystemNode.size: the size is the sum it leaves
ReadSize(w, ns, id) == AddSize([w EXCEPT !.sum = 0], ns, id)

Sized(r) == IF r.raised THEN OSError ELSE Val(r.sum)

\* FilesystemNode.size evaluated while the filesystem is fs and stays so
NodeSize(ns, fs, id) == Sized(ReadSize(World(fs, {}), ns, id))

RECURSIVE SumSizes(_, _, _)
\* sum(x.size for x in ids) on a filesystem that stays as it is
SumSizes(ns, fs, ids) ==
    IF ids = << >> THEN Val(0)
    ELSE Plus(NodeSize(ns, fs, Head(ids)), SumSizes(ns, fs, Tail(ids)))

----------------------------------------------------------------------------
(* show: the filter FilesystemTree.show builds, and treelib's traversal.   *)
(* Every operator takes the run of reads as far as it has got and returns  *)
(* it as its own reads leave it.                                            *)

ShowArgs(depth, min_size) == [depth |-> depth, min_size |-> min_size]
NoArgs == ShowArgs(0, 0)

\* line 152: size_spec(min_size) if min_size else 0
MinSizeSpec(min_size) == IF min_size # 0 THEN size_spec(IntSpec(min_size)).val ELSE 0

\* size_filter, on the size just read
Judge(r, a) == [r EXCEPT !.ok = ~r.raised /\ r.sum >= MinSizeSpec(a.min_size)]

\* lines 149-154: depth_filter(n) and size_filter(n); the size is read only
\* when the depth passes
Filter(w, ns, a, id) ==
    IF w.raised \/ (a.depth > 0 /\ ns[id].depth > a.depth)
    THEN [w EXCEPT !.ok = FALSE]
    ELSE Judge(ReadSize(w, ns, id), a)

Keep(r, id) == IF r.ok THEN [r EXCEPT !.chosen = @ \o <<id>>] ELSE r

RECURSIVE Select(_, _, _, _)
\* [self[i] for i in successors if filter_(self[i])]
Select(w, ns, a, ids) ==
    IF ids = << >> THEN w
    ELSE Select(Keep(Filter(w, ns, a, Head(ids)), Head(ids)), ns, a, Tail(ids))

Keyed(r, id) == [r EXCEPT !.keyed = @ \o <<[id |-> id, key |-> r.sum]>>]

RECURSIVE Keys(_, _, _)
\* list.sort calls key once on every element, in the order of the list,
\* before it compares any
Keys(w, ns, ids) ==
    IF ids = << >> THEN w
    ELSE Keys(Keyed(ReadSize(w, ns, Head(ids)), Head(ids)), ns, Tail(ids))

RECURSIVE InsertUnstable(_, _)
InsertUnstable(sorted, x) ==
    IF sorted = << >> THEN <<x>>
    ELSE IF Head(sorted).key > x.key
    THEN <<Head(sorted)>> \o InsertUnstable(Tail(sorted), x)
    ELSE <<x>> \o sorted

RECURSIVE InsertBySize(_, _)
\* x put into a list sorted by key, largest first, behind its equals
InsertBySize(sorted, x) ==
    IF sorted = << >> THEN <<x>>
    ELSE IF Head(sorted).key >= x.key
    THEN <<Head(sorted)>> \o InsertBySize(Tail(sorted), x)
    ELSE <<x>> \o sorted

RECURSIVE SortBySize(_)
\* children.sort(key=lambda n: n.data.size, reverse=True), on the keys read:
\* list.sort is stable, and stays so under reverse=True
SortBySize(keyed) ==
    IF keyed = << >> THEN << >>
    ELSE InsertBySize(SortBySize(Front(keyed)), Last(keyed))

Ids(keyed) == [i \in 1..Len(keyed) |-> keyed[i].id]

Emit(r, id) ==
    IF r.raised THEN r ELSE [r EXCEPT !.lines = @ \o <<[path |-> id, size |-> r.sum]>>]

\* a printed line: the node's stat, its size and its name
Line(w, ns, id) == Emit(ReadSize(w, ns, id), id)

\* the children of a node that pass the filter
Chosen(w, ns, a, id) == Select([w EXCEPT !.chosen = << >>], ns, a, ns[id].children)

\* their sort keys
KeysOf(w, ns) == Keys([w EXCEPT !.keyed = << >>], ns, w.chosen)

RECURSIVE Render(_, _, _, _), RenderAll(_, _, _, _)
\* for child in children: the subtree of each, in order
RenderAll(w, ns, a, ids) ==
    IF ids = << >> \/ w.raised THEN w
    ELSE RenderAll(Render(w, ns, a, Head(ids)), ns, a, Tail(ids))

\* children.sort(...), then the subtrees of the sorted children
Under(w, ns, a) == RenderAll(w, ns, a, Ids(SortBySize(w.keyed)))

\* if filter_(node): its children that pass the filter, sorted, each with its
\* subtree
Below(w, ns, a, id) ==
    IF w.raised \/ ~w.ok THEN w
    ELSE Under(KeysOf(Chosen(w, ns, a, id), ns), ns, a)

\* treelib's traversal from a node: the node's own line first, then the
\* filter on the node decides whether the traversal goes below it
Render(w, ns, a, id) == Below(Filter(Line(w, ns, id), ns, a, id), ns, a, id)

Printed(lines) == [raised |-> FALSE, lines |-> lines]
ShowRaised == [raised |-> TRUE, lines |-> << >>]

Outcome(r) ==
    [out |-> IF r.raised THEN ShowRaised ELSE Printed(r.lines),
     fs |-> r.fs, cnt |-> r.cnt, used |-> r.used]

\* FilesystemTree.show(depth, min_size) while the world outside does what
\* sched says: what it prints, or that it raised (an OSError from any read
\* ends the call), the filesystem it leaves, the reads it made and the
\* changes that came in between them
show(ns, fs, a, sched) == Outcome(Render(World(fs, sched), ns, a, ROOT))

----------------------------------------------------------------------------
(* Constructing and showing a tree. *)

NoOut == Printed(<< >>)     \* nothing shown yet: a show prints the root at least
NoGot == [ref |-> "unread", nodes |-> NoNodes, worker |-> "running"]

Includes ==
    {NoInclude} \cup {Including(ps) : ps \in SUBSET Patterns}

ShowDepths == 0..MaxDepth
ShowMinSizes == 0..MaxMinSize

TreeIdle ==
    /\ pc = "init" /\ err = "none" /\ nodes = NoNodes /\ include_paths = {}
    /\ walked = 0
ShowIdle == args = NoArgs /\ out = NoOut /\ dirty = FALSE /\ changes = 0
ThreadIdle ==
    /\ library_tree = "None" /\ fpc = "idle" /\ got = NoGot /\ first = NoGot
    /\ reads = 0
SizeIdle == specIn = IntSpec(0) /\ specOut = Pending

\* FilesystemTree(root_path, include_paths), the whole constructor
Build ==
    /\ pc = "init"
    /\ LET r == Construct(rootOk, fstat, include, listing) IN
         /\ pc' = r.pc
         /\ err' = r.err
         /\ nodes' = r.nodes
         /\ include_paths' = r.include_paths
    /\ UNCHANGED <<listing, rootOk, fstat, include, walked>>
    /\ UNCHANGED <<showVars, threadVars, sizeVars>>

\* tree.show(depth=depth, min_size=min_size), the whole call, while nothing
\* under the root changes
Show(depth, min_size) ==
    /\ pc = "built"
    /\ args' = ShowArgs(depth, min_size)
    /\ out' = show(nodes, fstat, ShowArgs(depth, min_size), {}).out
    /\ dirty' = FALSE
    /\ UNCHANGED <<changes, treeVars, threadVars, sizeVars>>

\* a tree of everything
FullTree == populate_tree({}, [f \in Files |-> Regular(0)], ByName).nodes

\* most reads one show makes of each file: those of the show of everything
MostReads == show(FullTree, [f \in Files |-> Regular(0)], NoArgs, {}).cnt

\* the moments at which a change can come between two reads of one show
Slots == UNION {{Slot(f, at) : at \in 2..MostReads[f]} : f \in Files}

RECURSIVE Subsets(_, _)
\* the subsets of S of at most k elements
Subsets(S, k) ==
    IF k = 0 \/ S = {} THEN {{}}
    ELSE LET x == CHOOSE y \in S : TRUE IN
         Subsets(S \ {x}, k) \cup {sched \cup {x} : sched \in Subsets(S \ {x}, k - 1)}

\* the ways of up to k changes coming in during one show, one or more
Racing == [k \in 0..MaxChanges |-> Subsets(Slots, k) \ {{}}]

\* the show calls followed while the world outside changes files: everything,
\* everything that is not smaller than a file, everything down to a depth
EnvArgs == {NoArgs, ShowArgs(0, MaxFileSize), ShowArgs(MaxDepth, 0)}

\* tree.show(depth=depth, min_size=min_size), the whole call, while the world
\* outside changes files between the call's reads as sched says, every change
\* of sched coming in
ShowDuringChange(depth, min_size, sched) ==
    /\ pc = "built"
    /\ changes + Cardinality(sched) <= MaxChanges
    /\ \E r \in {show(nodes, fstat, ShowArgs(depth, min_size), sched)} :
         /\ r.used = Cardinality(sched)
         /\ args' = ShowArgs(depth, min_size)
         /\ out' = r.out
         /\ fstat' = r.fs
    /\ dirty' = TRUE
    /\ changes' = changes + Cardinality(sched)
    /\ UNCHANGED <<listing, rootOk, include, pc, err, nodes, include_paths, walked>>
    /\ UNCHANGED <<threadVars, sizeVars>>

\* the world outside changes a file between two calls; dirty says a file
\* changed since the last show began
Change(f) ==
    /\ pc = "built"
    /\ changes < MaxChanges
    /\ fstat' = [fstat EXCEPT ![f] = Flip(@)]
    /\ dirty' = TRUE
    /\ changes' = changes + 1
    /\ UNCHANGED <<listing, rootOk, include, pc, err, nodes, include_paths, walked>>
    /\ UNCHANGED <<args, out, threadVars, sizeVars>>

\* every filesystem, listing order and include set; the constructor alone
Init ==
    /\ \/ rootOk = TRUE /\ fstat \in Filesystems
       \/ rootOk = FALSE /\ fstat = [f \in Files |-> Absent]
    /\ listing \in Orders
    /\ include \in Includes
    /\ TreeIdle /\ ShowIdle /\ ThreadIdle /\ SizeIdle
    /\ wpc = "dead"

Next == Build

Spec == Init /\ [][Next]_vars

\* a tree of everything, on any filesystem and listing order, shown while
\* nothing changes
InitShow ==
    /\ rootOk = TRUE
    /\ fstat \in Filesystems
    /\ listing \in Orders
    /\ include = NoInclude
    /\ TreeIdle /\ ShowIdle /\ ThreadIdle /\ SizeIdle
    /\ wpc = "dead"

NextShow ==
    \/ Build
    \/ \E depth \in ShowDepths, min_size \in ShowMinSizes : Show(depth, min_size)

SpecShow == InitShow /\ [][NextShow]_vars

\* a tree of everything, built while the three files were regular files, and
\* shown while the world outside changes them
InitEnv ==
    /\ rootOk = TRUE
    /\ fstat = [f \in Files |-> Regular(MaxFileSize)]
    /\ listing \in {ByName, Backwards}
    /\ include = NoInclude
    /\ TreeIdle /\ ShowIdle /\ ThreadIdle /\ SizeIdle
    /\ wpc = "dead"

NextEnv ==
    \/ Build
    \/ \E a \in EnvArgs : Show(a.depth, a.min_size)
    \/ \E f \in Files : Change(f)
    \/ pc = "built" /\ \E a \in EnvArgs : \E sched \in Racing[MaxChanges - changes] :
         ShowDuringChange(a.depth, a.min_size, sched)

SpecEnv == InitEnv /\ [][NextEnv]_vars

----------------------------------------------------------------------------
(* size_spec on its own. *)

ParseSize ==
    /\ specOut = Pending
    /\ specOut' = size_spec(specIn)
    /\ UNCHANGED <<specIn, treeVars, showVars, threadVars>>

InitSize ==
    /\ specIn \in SpecInputs
    /\ specOut = Pending
    /\ rootOk = TRUE /\ fstat = [f \in Files |-> Absent] /\ include = NoInclude
    /\ listing = ByName
    /\ TreeIdle /\ ShowIdle /\ ThreadIdle
    /\ wpc = "dead"

NextSize == ParseSize

SpecSize == InitSize /\ [][NextSize]_vars

----------------------------------------------------------------------------
(* SDUtil: the worker thread that builds the library tree, step by step,   *)
(* and the foreground thread reading the library_tree property.            *)

\* SYSTEM_LIBRARY_DIRS: names of directories right under the base directory
SYSTEM_LIBRARY_DIRS == Including({PatA, PatAB})

\* the worker enters FilesystemTree.__init__: lines 98-106, and line 127
WorkerBegin ==
    /\ wpc = "running" /\ pc = "init"
    /\ IF Validate(rootOk, include) # "none"
       THEN /\ pc' = "failed" /\ err' = Validate(rootOk, include)
            /\ UNCHANGED <<nodes, include_paths>>
       ELSE /\ pc' = "walking" /\ err' = "none"
            /\ include_paths' = expand_include_paths(fstat, include)
            /\ nodes' = RootOnly.nodes
    /\ UNCHANGED <<listing, rootOk, fstat, include, walked>>
    /\ UNCHANGED <<showVars, threadVars, sizeVars>>

\* one iteration of the os.walk loop of populate_tree
WorkerWalk ==
    /\ wpc = "running" /\ pc = "walking"
    /\ LET T == PopulateDir([nodes |-> nodes, err |-> "none"], include_paths,
                            fstat, listing, WalkOrder(listing)[walked + 1]) IN
         /\ nodes' = T.nodes
         /\ err' = T.err
         /\ pc' = IF T.err # "none" THEN "failed"
                  ELSE IF walked + 1 = Len(WalkOrder(listing)) THEN "built" ELSE "walking"
    /\ walked' = walked + 1
    /\ UNCHANGED <<listing, rootOk, fstat, include, include_paths>>
    /\ UNCHANGED <<showVars, threadVars, sizeVars>>

\* build_library_tree, line 51: the constructor has returned and the tree is
\* stored in self._library_tree
WorkerAssign ==
    /\ wpc = "running" /\ pc = "built" /\ library_tree = "None"
    /\ library_tree' = "tree"
    /\ UNCHANGED <<wpc, fpc, got, first, reads>>
    /\ UNCHANGED <<treeVars, showVars, sizeVars>>

\* the thread ends: build_library_tree returned, or the constructor raised
WorkerExit ==
    /\ wpc = "running"
    /\ \/ pc = "built" /\ library_tree = "tree"
       \/ pc = "failed"
    /\ wpc' = "dead"
    /\ UNCHANGED <<library_tree, fpc, got, first, reads>>
    /\ UNCHANGED <<treeVars, showVars, sizeVars>>

\* the foreground reads self.library_tree
FgCall ==
    /\ fpc = "idle" /\ reads < MaxReads
    /\ fpc' = "test"
    /\ UNCHANGED <<wpc, library_tree, got, first, reads>>
    /\ UNCHANGED <<treeVars, showVars, sizeVars>>

\* line 46: if self._library_tree is None
FgTest ==
    /\ fpc = "test"
    /\ fpc' = IF library_tree = "None" THEN "join" ELSE "return"
    /\ UNCHANGED <<wpc, library_tree, got, first, reads>>
    /\ UNCHANGED <<treeVars, showVars, sizeVars>>

\* line 47: self._library_tree_thread.join() returns once the thread is dead
FgJoin ==
    /\ fpc = "join" /\ wpc = "dead"
    /\ fpc' = "return"
    /\ UNCHANGED <<wpc, library_tree, got, first, reads>>
    /\ UNCHANGED <<treeVars, showVars, sizeVars>>

\* line 48: return self._library_tree; the caller gets the reference, and
\* through it the tree as it is at that moment
FgReturn ==
    /\ fpc = "return"
    /\ got' = [ref |-> library_tree,
               nodes |-> IF library_tree = "tree" THEN nodes ELSE NoNodes,
               worker |-> IF pc \in {"built", "failed"} THEN "finished" ELSE "running"]
    /\ first' = IF reads = 0 THEN got' ELSE first
    /\ reads' = reads + 1
    /\ fpc' = "idle"
    /\ UNCHANGED <<wpc, library_tree>>
    /\ UNCHANGED <<treeVars, showVars, sizeVars>>

\* after SDUtil.__init__: _library_tree is None and the thread is started
InitThread ==
    /\ rootOk \in BOOLEAN
    /\ fstat \in [Files -> {Absent, Regular(MaxFileSize)}]
    /\ listing \in Orders
    /\ include = SYSTEM_LIBRARY_DIRS
    /\ TreeIdle /\ ShowIdle /\ ThreadIdle /\ SizeIdle
    /\ wpc = "running"

NextThread ==
    \/ WorkerBegin \/ WorkerWalk \/ WorkerAssign \/ WorkerExit
    \/ FgCall \/ FgTest \/ FgJoin \/ FgReturn

SpecThread == InitThread /\ [][NextThread]_vars

----------------------------------------------------------------------------
(* Vocabulary of the properties. *)

FirstSep(s) == CHOOSE i \in 1..Len(s) : s[i] = "/" /\ \A j \in 1..(i - 1) : s[j] # "/"

RECURSIVE Segments(_)
\* a path cut at its separators: "/R/a" is "", "R", "a"
Segments(s) ==
    IF \A i \in 1..Len(s) : s[i] # "/" THEN <<s>>
    ELSE <<SubSeq(s, 1, FirstSep(s) - 1)>> \o Segments(SubSeq(s, FirstSep(s) + 1, Len(s)))

\* q is p or an ancestor directory of p, segment by segment
IsAncestorOrSelf(q, p) ==
    /\ Len(Segments(q)) <= Len(Segments(p))
    /\ SubSeq(Segments(p), 1, Len(Segments(q))) = Segments(q)

\* p, or an ancestor of p no higher than the root, is in the set
AncestorOrSelfIn(ips, p) ==
    \E q \in ips : IsAncestorOrSelf(ROOT, q) /\ IsAncestorOrSelf(q, p)

\* the entries of a directory in the order populate_tree meets them
EntryOrder(dir_path) ==
    LET names == DirNames(listing, dir_path) \o FileCandidates(dir_path) IN
    [i \in 1..Len(names) |-> join(dir_path, names[i])]

\* when populate_tree met a path among the entries of its directory
Rank(path) ==
    LET order == EntryOrder(dirname(path)) IN
    CHOOSE i \in 1..Len(order) : order[i] = path

ShownPaths == {out.lines[i].path : i \in 1..Len(out.lines)}
Shown == pc = "built" /\ out # NoOut /\ ~out.raised

----------------------------------------------------------------------------
(* Properties. *)

\* C1: once the constructor has completed, every directory node's size is
\* the sum of the sizes of the tree nodes attached under it, and its
\* subdirectories and files lists hold exactly those nodes, directories in
\* the first and files in the second, each once.
C1_SizeIsSumOfAttachedChildren ==
    pc = "built" =>
        \A id \in DOMAIN nodes :
            LET under == {c \in DOMAIN nodes : nodes[c].parent = id} IN
            /\ id # ROOT => nodes[id].parent \in DOMAIN nodes
            /\ nodes[id].isdir =>
                /\ NodeSize(nodes, fstat, id) = SumSizes(nodes, fstat, nodes[id].children)
                /\ SeqToSet(nodes[id].children) = under
                /\ SeqToSet(nodes[id].subdirectories) = {c \in under : nodes[c].isdir}
                /\ SeqToSet(nodes[id].files) = {c \in under : ~nodes[c].isdir}
                /\ Len(nodes[id].subdirectories) + Len(nodes[id].files) = Cardinality(under)
            /\ ~nodes[id].isdir => under = {}

\* a full tree has been built, with files of positive size two levels down
C1_Witness ==
    /\ pc = "built"
    /\ DOMAIN nodes = Dirs \cup Files
    /\ NodeSize(nodes, fstat, DirA) = Val(MaxFileSize)
    /\ NodeSize(nodes, fstat, ROOT) = Val(3 * MaxFileSize)

\* C2: with a non-empty resolved include set, should_include_path accepts a
\* path under the root exactly when the path or one of its ancestors up to
\* the root is in the set, ancestors being compared segment by segment.
C2_IncludedIffAncestorInSet ==
    include_paths # {} =>
        \A p \in Dirs \cup Files :
            should_include_path(include_paths, p) <=> AncestorOrSelfIn(include_paths, p)

\* only /R/a is included: /R/a/b/c is in the tree, /R/d and /R/ab are not
C2_Witness ==
    /\ pc = "built"
    /\ include_paths = {DirA}
    /\ FileC \in DOMAIN nodes
    /\ DirD \notin DOMAIN nodes
    /\ DirAB \notin DOMAIN nodes

\* C3: the constructor fails only at its validation step, before any node
\* is created; once populate_tree has started it does not fail.
C3_FailsOnlyAtValidation ==
    pc = "failed" => Validate(rootOk, include) # "none" /\ nodes = NoNodes

\* C4: include patterns that expand to no path give a tree of the root
\* alone, unlike no include set at all.
C4_NoMatchIncludesNothing ==
    (pc # "init" /\ rootOk /\ include.given /\ include.pats # {}
        /\ expand_include_paths(fstat, include) = {})
    => pc = "built" /\ DOMAIN nodes = {ROOT}

\* C5: every node show prints, the root included, is within the depth limit
\* (when depth > 0) and at least min_size large, and is printed under a
\* printed parent.
C5_PrintedNodesPassFilters ==
    Shown =>
        \A i \in 1..Len(out.lines) :
            LET line == out.lines[i] IN
            /\ args.depth > 0 => nodes[line.path].depth <= args.depth
            /\ line.size >= args.min_size
            /\ line.path # ROOT => nodes[line.path].parent \in ShownPaths

\* C6: among the lines show prints, siblings come largest first, and
\* siblings of equal size in the order populate_tree inserted them.
C6_SiblingsBySizeThenInsertion ==
    Shown =>
        \A i, j \in 1..Len(out.lines) :
            LET x == out.lines[i]
                y == out.lines[j]
            IN  (i < j /\ x.path # ROOT /\ y.path # ROOT
                    /\ nodes[x.path].parent = nodes[y.path].parent)
                => /\ x.size >= y.size
                   /\ x.size = y.size => Rank(x.path) < Rank(y.path)

\* show() with its default arguments printed two siblings of equal positive
\* size, and printed a sibling ahead of one inserted before it
C6_Witness ==
    /\ Shown
    /\ args = ShowArgs(0, 0)
    /\ \E i, j \in 1..Len(out.lines) :
          LET x == out.lines[i]
              y == out.lines[j]
          IN  /\ i < j /\ x.path # ROOT /\ y.path # ROOT
              /\ nodes[x.path].parent = nodes[y.path].parent
              /\ x.size = y.size /\ x.size > 0
    /\ \E i, j \in 1..Len(out.lines) :
          LET x == out.lines[i]
              y == out.lines[j]
          IN  /\ i < j /\ x.path # ROOT /\ y.path # ROOT
              /\ nodes[x.path].parent = nodes[y.path].parent
              /\ Rank(x.path) > Rank(y.path)

\* C7: rendering reads only the built tree, so two show calls with the same
\* arguments print the same, whatever happened to the files after the build.
C7_SameArgumentsSameOutput ==
    [][(pc = "built" /\ out # NoOut /\ args' = args) => out' = out]_vars

\* C8: every read of library_tree returns, after the worker has finished,
\* the completed tree, the same at every read.
C8_ReadReturnsCompletedTree ==
    reads > 0 =>
        /\ got.worker = "finished"
        /\ got.ref = "tree"
        /\ got.nodes = Construct(rootOk, fstat, include, listing).nodes
        /\ got = first

\* what C9 says size_spec does
C9_Expected(spec) ==
    LET s == spec.str IN
    IF spec.kind = "int" THEN Returned(spec.int)
    ELSE IF s # << >> /\ AllDigits(s) THEN Returned(ParseInt(s))
    ELSE IF Len(s) >= 2 /\ AllDigits(Front(s))
            /\ Last(s) \in {"B", "K", "M", "G", "b", "k", "m", "g"}
    THEN Returned(ParseInt(Front(s)) * SIZE_UNITS[Upper(Last(s))])
    ELSE Raised("ValueError")

\* C9: size_spec returns an integer unchanged, digits * multiplier for a
\* string that is, as a whole, digits and at most one unit letter, and
\* fails with the invalid-size error for every other string.
C9_SizeSpecContract ==
    specOut # Pending => specOut = C9_Expected(specIn)

\* C10: reading the size of a node never raises and is never negative,
\* whatever the files of the tree are.
C10_SizeNeverRaises ==
    pc = "built" =>
        \A id \in DOMAIN nodes :
            /\ ~NodeSize(nodes, fstat, id).raised
            /\ NodeSize(nodes, fstat, id).val >= 0

====
